---- MODULE Spec2Model ----
(***************************************************************************)
(* The gizAI chat-completion adapter: src/main.py (OpenAI-compatible       *)
(* envelope, port 8000) and src/main2.py (minimal {output} shape, port     *)
(* 8001).  One inbound POST /v1/chat/completions is validated, translated  *)
(* to the provider's body, posted once, and the provider's reply is        *)
(* reshaped into the answer.                                               *)
(*                                                                         *)
(* Texts whose characters matter (the provider's `output`, the error       *)
(* detail) are sequences of one-character strings; a literal piece of a    *)
(* message is one element.  Python's None is the string NoneVal.           *)
(***************************************************************************)
EXTENDS Integers, Sequences, FiniteSets, TLC

VARIABLES app, pc, inbound, outbound, reply, bodyRead, resp

vars == <<app, pc, inbound, outbound, reply, bodyRead, resp>>

(* ------------------------------ bounds -------------------------------- *)
MaxMsgs == 2
MaxTextLen == 3
NumReq == 2
MaxConcMsgs == 1

Apps == {"main", "main2"}
Reqs == 1..NumReq
Sequential == {1}

NoneVal == "None"
NoRequest == [none |-> TRUE]
NoReply == [none |-> TRUE]
NoResponse == [none |-> TRUE]

(* ------------------------------ inputs -------------------------------- *)
RawRoles == {"user", "assistant", "system", "human", "ai", "tool", NoneVal}
Contents == {"be terse", "hi"}
Models == {"qwen-coder-32b", "claude-haiku"}
Chars == {" ", "a"}
Whitespace == {" ", "\t", "\n", "\r"}
Statuses == {200, 201, 403}

SeqsUpTo(S, n) == UNION {[1..k -> S] : k \in 0..n}

RawMessages == [role : RawRoles, content : Contents]

\* The JSON bodies a caller may send.  `role` is the message's label field:
\* the key `role` in main.py, the key `type` in main2.py.
ChatRequests ==
    [model : Models, messages : SeqsUpTo(RawMessages, MaxMsgs),
     noStream : BOOLEAN, mode : {"plan", "agent"}]

Texts == SeqsUpTo(Chars, MaxTextLen)

\* What the provider may send back as a body.
ProviderBodies ==
    {[tag |-> "text", output |-> t] : t \in Texts}
    \cup {[tag |-> k, output |-> <<>>] : k \in {"notjson", "nonobject", "nooutput", "nonstring"}}

ProviderReplies == [status : Statuses, body : ProviderBodies]

\* The smaller inputs explored when several requests are in flight at once.
ConcRequests ==
    [model : Models,
     messages : SeqsUpTo([role : {"user", "system"}, content : {"hi"}], MaxConcMsgs),
     noStream : {TRUE}, mode : {"plan"}]

ConcReplies ==
    [status : {201, 403},
     body : {[tag |-> "text", output |-> <<"a">>], [tag |-> "nooutput", output |-> <<>>]}]

(* --------------------------- pure functions --------------------------- *)
MessageType(a) ==
    IF a = "main" THEN {"human", "ai", "system", "assistant"}
    ELSE {"human", "assistant", "system"}

\* Faulty variant: the request validator copied from ResponseMessage
\* (assistant stays assistant).
Message_map_role_assistant(v) ==
    IF v = "user" THEN "human"
    ELSE IF v = "assistant" THEN "assistant"
    ELSE v

Message_map_role(v) ==
    IF v = "user" THEN "human"
    ELSE IF v = "assistant" THEN "ai"
    ELSE v

\* Faulty variant: the response validator copied from Message
\* (assistant becomes ai).
ResponseMessage_map_role_ai(v) ==
    IF v = "user" THEN "human"
    ELSE IF v = "assistant" THEN "ai"
    ELSE v

ResponseMessage_map_role(v) ==
    IF v = "user" THEN "human"
    ELSE IF v = "assistant" THEN "assistant"
    ELSE IF v = "system" THEN "system"
    ELSE v

\* Faulty variant: the role field typed as a plain string, so nothing is
\* rejected.
Message_unvalidated(a, m) ==
    [ok |-> TRUE,
     role |-> IF a = "main" THEN Message_map_role(m.role) ELSE m.role,
     content |-> m.content]

\* pydantic's validation of one message: the `before` validator, then the
\* field's type.
Message(a, m) ==
    IF a = "main"
    THEN LET v == Message_map_role(m.role)
         IN  IF v = NoneVal \/ v \in MessageType(a)
             THEN [ok |-> TRUE, role |-> v, content |-> m.content]
             ELSE [ok |-> FALSE, role |-> v, content |-> m.content]
    ELSE IF m.role \in MessageType(a)
         THEN [ok |-> TRUE, role |-> m.role, content |-> m.content]
         ELSE [ok |-> FALSE, role |-> m.role, content |-> m.content]

ChatRequest(a, q) ==
    LET ms == [i \in 1..Len(q.messages) |-> Message(a, q.messages[i])]
    IN  [ok |-> \A i \in 1..Len(ms) : ms[i].ok,
         model |-> q.model,
         messages |-> [i \in 1..Len(ms) |-> [role |-> ms[i].role, content |-> ms[i].content]]]

\* Faulty variant: the outbound list built in reverse order.
ToProviderMessages_reversed(a, msgs) ==
    IF a = "main" /\ \E i \in 1..Len(msgs) : msgs[i].role = NoneVal
    THEN [ok |-> FALSE, err |-> <<"'NoneType' object has no attribute 'value'">>, val |-> <<>>]
    ELSE [ok |-> TRUE, err |-> <<>>,
          val |-> [i \in 1..Len(msgs) |->
                     [type |-> msgs[Len(msgs) + 1 - i].role,
                      content |-> msgs[Len(msgs) + 1 - i].content]]]

\* The list comprehension of chat_completions; msg.role.value raises on None.
ToProviderMessages(a, msgs) ==
    IF a = "main" /\ \E i \in 1..Len(msgs) : msgs[i].role = NoneVal
    THEN [ok |-> FALSE, err |-> <<"'NoneType' object has no attribute 'value'">>, val |-> <<>>]
    ELSE [ok |-> TRUE, err |-> <<>>,
          val |-> [i \in 1..Len(msgs) |-> [type |-> msgs[i].role, content |-> msgs[i].content]]]

\* Faulty variant: `model` and `baseModel` conflated.
GizAI_data_swapped(model, messages) ==
    [model |-> model,
     baseModel |-> "chat",
     input |-> [messages |-> messages, mode |-> "chat"],
     noStream |-> TRUE]

GizAI_data(model, messages) ==
    [model |-> "chat",
     baseModel |-> model,
     input |-> [messages |-> messages, mode |-> "chat"],
     noStream |-> TRUE]

RECURSIVE lstrip(_)
lstrip(s) == IF s # <<>> /\ Head(s) \in Whitespace THEN lstrip(Tail(s)) ELSE s

RECURSIVE rstrip(_)
rstrip(s) ==
    IF s # <<>> /\ s[Len(s)] \in Whitespace THEN rstrip(SubSeq(s, 1, Len(s) - 1)) ELSE s

\* Faulty variant: only the leading whitespace removed.
strip_left_only(s) == lstrip(s)

strip(s) == rstrip(lstrip(s))

DigitChars == <<"0", "1", "2", "3", "4", "5", "6", "7", "8", "9">>

RECURSIVE str(_)
str(n) == IF n < 10 THEN <<DigitChars[n + 1]>> ELSE str(n \div 10) \o <<DigitChars[(n % 10) + 1]>>

\* Faulty variant: every 2xx status taken as success.
GizAI_result_any2xx(rep) ==
    IF rep.status \in 200..299 /\ rep.body.tag = "text"
    THEN [ok |-> TRUE, text |-> strip(rep.body.output), err |-> <<>>]
    ELSE [ok |-> FALSE, text |-> <<>>, err |-> <<"Unexpected response status: ">> \o str(rep.status)]

\* Faulty variant: result.get('output', '') in place of result['output'].
GizAI_result_get_default(rep) ==
    IF rep.status = 201
    THEN IF rep.body.tag \in {"text", "nooutput"}
         THEN [ok |-> TRUE, text |-> strip(rep.body.output), err |-> <<>>]
         ELSE [ok |-> FALSE, text |-> <<>>, err |-> <<"parse failure">>]
    ELSE [ok |-> FALSE, text |-> <<>>, err |-> <<"Unexpected response status: ">> \o str(rep.status)]

\* The body of `async with session.post(...) as response`.
GizAI_result(rep) ==
    IF rep.status = 201
    THEN CASE rep.body.tag = "text" ->
                [ok |-> TRUE, text |-> strip(rep.body.output), err |-> <<>>]
           [] rep.body.tag = "notjson" ->
                [ok |-> FALSE, text |-> <<>>, err |-> <<"Attempt to decode JSON with unexpected mimetype">>]
           [] rep.body.tag = "nonobject" ->
                [ok |-> FALSE, text |-> <<>>, err |-> <<"list indices must be integers or slices, not str">>]
           [] rep.body.tag = "nooutput" ->
                [ok |-> FALSE, text |-> <<>>, err |-> <<"'output'">>]
           [] OTHER ->
                [ok |-> FALSE, text |-> <<>>, err |-> <<"'int' object has no attribute 'strip'">>]
    ELSE [ok |-> FALSE, text |-> <<>>, err |-> <<"Unexpected response status: ">> \o str(rep.status)]

GizAI_reads_body(rep) == rep.status = 201

HTTPException(code, detail) == [status |-> code, detail |-> detail]

ResponseMessage(content, role) ==
    LET v == ResponseMessage_map_role(role)
    IN  [ok |-> v \in MessageType("main"), content |-> content, role |-> v]

ChatResponse(a, model, text) ==
    IF a = "main"
    THEN LET msg == ResponseMessage(text, "assistant")
         IN  IF msg.ok
             THEN [status |-> 200,
                   id |-> "chatcmpl-dc4f6c13-7739-4acc-8940-ec822ccb24dc",
                   choices |-> <<[finish_reason |-> "stop", index |-> 0,
                                  message |-> [content |-> msg.content, role |-> msg.role]]>>,
                   created |-> 1735359843,
                   model |-> model,
                   object |-> "chat.completion",
                   usage |-> [completion_tokens |-> 0, prompt_tokens |-> 0, total_tokens |-> 0]]
             ELSE HTTPException(500, <<"validation error for ResponseMessage">>)
    ELSE [status |-> 200, output |-> text]

\* What the resumed handler answers: the composed response, or the
\* `except Exception` clause's HTTP 500.
Answer(a, request, rep) ==
    LET result == GizAI_result(rep)
    IN  IF result.ok
        THEN ChatResponse(a, request.model, result.text)
        ELSE HTTPException(500, result.err)

\* Faulty variant: the request kept in one process-wide slot that every
\* handler reads.
RequestOf_shared(r) ==
    ChatRequest(app, inbound[CHOOSE s \in Reqs : pc[s] # "idle"])

\* The handler's local `request` of the call that serves slot r.
RequestOf(r) == ChatRequest(app, inbound[r])

(* ------------------------------ actions ------------------------------- *)
Init ==
    /\ app \in Apps
    /\ pc = [r \in Reqs |-> "idle"]
    /\ inbound = [r \in Reqs |-> NoRequest]
    /\ outbound = [r \in Reqs |-> <<>>]
    /\ reply = [r \in Reqs |-> NoReply]
    /\ bodyRead = [r \in Reqs |-> FALSE]
    /\ resp = [r \in Reqs |-> NoResponse]

\* An inbound POST arrives: validation, translation and the outbound POST,
\* up to the handler's one suspension point.
Receive(r, requests) ==
    /\ pc[r] = "idle"
    /\ \E q \in requests :
         LET request == ChatRequest(app, q)
             messages == ToProviderMessages(app, request.messages)
         IN  /\ inbound' = [inbound EXCEPT ![r] = q]
             /\ IF ~request.ok
                THEN /\ resp' = [resp EXCEPT ![r] = HTTPException(422, <<"validation error for ChatRequest">>)]
                     /\ pc' = [pc EXCEPT ![r] = "done"]
                     /\ UNCHANGED outbound
                ELSE IF ~messages.ok
                THEN /\ resp' = [resp EXCEPT ![r] = HTTPException(500, messages.err)]
                     /\ pc' = [pc EXCEPT ![r] = "done"]
                     /\ UNCHANGED outbound
                ELSE /\ outbound' = [outbound EXCEPT ![r] = Append(@, GizAI_data(request.model, messages.val))]
                     /\ pc' = [pc EXCEPT ![r] = "awaiting"]
                     /\ UNCHANGED resp
    /\ UNCHANGED <<app, reply, bodyRead>>

\* The provider answers the outbound POST of slot r; the handler resumes,
\* extracts the text and composes the answer.
ProviderReply(r, replies) ==
    /\ pc[r] = "awaiting"
    /\ \E rep \in replies :
         /\ reply' = [reply EXCEPT ![r] = rep]
         /\ bodyRead' = [bodyRead EXCEPT ![r] = GizAI_reads_body(rep)]
         /\ resp' = [resp EXCEPT ![r] = Answer(app, RequestOf(r), rep)]
         /\ pc' = [pc EXCEPT ![r] = "done"]
    /\ UNCHANGED <<app, inbound, outbound>>

Next ==
    \E r \in Sequential :
        \/ Receive(r, ChatRequests)
        \/ ProviderReply(r, ProviderReplies)

Spec == Init /\ [][Next]_vars

\* Several requests handled concurrently by the hosting server: the steps of
\* different slots interleave at the suspension point.
NextConc ==
    \E r \in Reqs :
        \/ Receive(r, ConcRequests)
        \/ ProviderReply(r, ConcReplies)

SpecConc == Init /\ [][NextConc]_vars

(* ------------------------------ claims -------------------------------- *)
Posted(r) == Len(outbound[r]) >= 1
Answered(r) == pc[r] = "done" /\ Posted(r)
Data(r) == outbound[r][1]

\* The text field of a 200 answer.
TextField(a, response) ==
    IF a = "main" THEN response.choices[1].message.content ELSE response.output

\* t is X without its leading and trailing whitespace.
IsTrimOf(t, X) ==
    \E i \in 0..Len(X) : \E j \in i..Len(X) :
        /\ t = SubSeq(X, i + 1, j)
        /\ \A k \in 1..i : X[k] \in Whitespace
        /\ \A k \in (j + 1)..Len(X) : X[k] \in Whitespace
        /\ t = <<>> \/ (t[1] \notin Whitespace /\ t[Len(t)] \notin Whitespace)

DigitOf(c) == CHOOSE d \in 0..9 : DigitChars[d + 1] = c
IsDigit(c) == \E d \in 0..9 : DigitChars[d + 1] = c

RECURSIVE DecimalValue(_)
DecimalValue(ds) ==
    IF ds = <<>> THEN 0
    ELSE 10 * DecimalValue(SubSeq(ds, 1, Len(ds) - 1)) + DigitOf(ds[Len(ds)])

\* The text d holds a run of digits that reads as the number n.
MentionsNumber(d, n) ==
    \E i \in 1..Len(d) : \E j \in i..Len(d) :
        /\ \A k \in i..j : IsDigit(d[k])
        /\ DecimalValue(SubSeq(d, i, j)) = n

\* C1: when the provider answers 201 with a JSON body whose `output` is the
\* string X, the answer is HTTP 200 and its text field (the sole choice's
\* content in main.py, `output` in main2.py) is X without its leading and
\* trailing whitespace.
C1_SuccessTextIsTrimmedOutput ==
    \A r \in Reqs :
        (Answered(r) /\ reply[r].status = 201 /\ reply[r].body.tag = "text")
        => /\ resp[r].status = 200
           /\ IsTrimOf(TextField(app, resp[r]), reply[r].body.output)

C1_Witness ==
    \E r \in Reqs :
        /\ Answered(r)
        /\ reply[r].status = 201
        /\ reply[r].body = [tag |-> "text", output |-> <<" ", "a", " ">>]
        /\ resp[r].status = 200
        /\ TextField(app, resp[r]) = <<"a">>

\* C2: for every provider status other than 201 (200 and 403 included) the
\* client fails without reading the body and the answer is HTTP 500 with a
\* detail that holds the decimal digits of the status; it is never 200.
C2_BadStatusGives500WithStatus ==
    \A r \in Reqs :
        (Answered(r) /\ reply[r].status # 201)
        => /\ resp[r].status = 500
           /\ ~bodyRead[r]
           /\ MentionsNumber(resp[r].detail, reply[r].status)

C2_Witness ==
    \E r \in Reqs :
        /\ Answered(r)
        /\ reply[r].status = 403
        /\ reply[r].body.tag = "text"
        /\ resp[r].status = 500
        /\ resp[r].detail = <<"Unexpected response status: ", "4", "0", "3">>

\* C3: a 201 whose body is not JSON, has no `output`, or has an `output` that
\* is not a string is answered with HTTP 500.
C3_MalformedBodyGives500 ==
    \A r \in Reqs :
        (Answered(r) /\ reply[r].status = 201 /\ reply[r].body.tag # "text")
        => resp[r].status = 500

C3_Witness ==
    \E r \in Reqs :
        /\ Answered(r)
        /\ reply[r].status = 201
        /\ reply[r].body.tag = "nooutput"
        /\ bodyRead[r]
        /\ resp[r].status = 500

\* C4: every request the endpoint accepts (it passed validation) has made
\* exactly one outbound POST by the time it is answered: never zero, never
\* more than one.
C4_ExactlyOneOutboundPost ==
    \A r \in Reqs :
        (pc[r] = "done" /\ resp[r].status # 422) => Len(outbound[r]) = 1

\* C5: every outbound body has model "chat", baseModel equal to the inbound
\* model, noStream TRUE and input.mode "chat", whatever the inbound request
\* carries in noStream and mode.
C5_OutboundFixedFields ==
    \A r \in Reqs : \A k \in 1..Len(outbound[r]) :
        /\ outbound[r][k].model = "chat"
        /\ outbound[r][k].baseModel = inbound[r].model
        /\ outbound[r][k].noStream = TRUE
        /\ outbound[r][k].input.mode = "chat"

C5_Witness ==
    \E r \in Reqs :
        /\ app = "main2"
        /\ Posted(r)
        /\ inbound[r].noStream = FALSE
        /\ inbound[r].mode = "agent"
        /\ inbound[r].model = "qwen-coder-32b"
        /\ Data(r).baseModel = "qwen-coder-32b"

\* The role label the provider is sent for an inbound label.
C6_MappedRole(a, v) ==
    IF a = "main"
    THEN CASE v = "user" -> "human"
           [] v = "assistant" -> "ai"
           [] OTHER -> v
    ELSE v

\* C6: the outbound input.messages has the length of the inbound messages
\* and its i-th entry carries the content and the mapped role of the i-th
\* inbound message.
C6_MessagesKeepOrderAndCount ==
    \A r \in Reqs :
        Posted(r)
        => LET out == Data(r).input.messages
               inn == inbound[r].messages
           IN  /\ Len(out) = Len(inn)
               /\ \A i \in 1..Len(inn) :
                     /\ out[i].content = inn[i].content
                     /\ out[i].type = C6_MappedRole(app, inn[i].role)

C6_Witness ==
    \E r \in Reqs :
        /\ app = "main"
        /\ Posted(r)
        /\ inbound[r].messages = <<[role |-> "system", content |-> "be terse"],
                                   [role |-> "user", content |-> "hi"]>>
        /\ Data(r).input.messages = <<[type |-> "system", content |-> "be terse"],
                                      [type |-> "human", content |-> "hi"]>>

\* C7 as stated: in main.py request parsing normalizes a role the way
\* response composition does, so "user" is sent as human and "assistant" is
\* sent as assistant.
C7_SameNormalizationBothWays ==
    \A r \in Reqs :
        (app = "main" /\ Posted(r))
        => \A i \in 1..Len(inbound[r].messages) :
              LET v == inbound[r].messages[i].role
              IN  v \in {"user", "assistant"}
                  => /\ Data(r).input.messages[i].type = ResponseMessage_map_role(v)
                     /\ v = "assistant" => Data(r).input.messages[i].type = "assistant"

\* C7 amended: in main.py "user" becomes human in request parsing and in
\* response composition; "assistant" becomes ai in request parsing (and is
\* sent to the provider as "ai") but stays assistant in response composition,
\* which is the role of every 200 answer's message.
C7_UserSameAssistantDiffers ==
    \A r \in Reqs :
        app = "main"
        => /\ Posted(r)
              => \A i \in 1..Len(inbound[r].messages) :
                    LET v == inbound[r].messages[i].role
                        t == Data(r).input.messages[i].type
                    IN  /\ v = "user" => (t = "human" /\ t = ResponseMessage_map_role(v))
                        /\ v = "assistant" => (t = "ai" /\ ResponseMessage_map_role(v) = "assistant")
           /\ (pc[r] = "done" /\ resp[r].status = 200)
              => resp[r].choices[1].message.role = "assistant"

C7_Witness ==
    \E r \in Reqs :
        /\ app = "main"
        /\ Answered(r)
        /\ resp[r].status = 200
        /\ inbound[r].messages = <<[role |-> "user", content |-> "hi"],
                                   [role |-> "assistant", content |-> "hi"]>>
        /\ Data(r).input.messages[1].type = "human"
        /\ Data(r).input.messages[2].type = "ai"

\* The labels and aliases the adapter names: MessageType's values and the
\* aliases of the map_role validators.
RecognizedRoles == {"human", "ai", "assistant", "system", "user"}

\* The aliases a variant's request validator rewrites.
Aliases(a) == IF a = "main" THEN {"user", "assistant"} ELSE {}

HasUnrecognizedRole(q) ==
    \E i \in 1..Len(q.messages) : q.messages[i].role \notin RecognizedRoles \cup {NoneVal}

HasAbsentRole(q) == \E i \in 1..Len(q.messages) : q.messages[i].role = NoneVal

\* C8 as stated: a message whose role is no recognized label or alias raises
\* no validation failure; the request is accepted and the role is forwarded
\* unchanged in the outbound body.
C8_UnrecognizedRoleForwarded ==
    \A r \in Reqs :
        (pc[r] # "idle" /\ HasUnrecognizedRole(inbound[r]) /\ ~HasAbsentRole(inbound[r]))
        => /\ Posted(r)
           /\ \A i \in 1..Len(inbound[r].messages) :
                 inbound[r].messages[i].role \notin RecognizedRoles
                 => Data(r).input.messages[i].type = inbound[r].messages[i].role

\* C8 amended: a request holding a message whose role is no recognized label
\* or alias fails validation: it is answered 422 and nothing is sent to the
\* provider.  Only the values of MessageType that are no alias are forwarded
\* unchanged.
C8_UnrecognizedRoleRejected ==
    \A r \in Reqs :
        /\ (pc[r] # "idle" /\ HasUnrecognizedRole(inbound[r]))
           => (pc[r] = "done" /\ resp[r].status = 422 /\ outbound[r] = <<>>)
        /\ Posted(r)
           => \A i \in 1..Len(inbound[r].messages) :
                 LET v == inbound[r].messages[i].role
                 IN  /\ v \in MessageType(app) \cup Aliases(app)
                     /\ (v \in MessageType(app) \ Aliases(app))
                        => Data(r).input.messages[i].type = v

C8_Witness ==
    \E r \in Reqs :
        /\ app = "main"
        /\ pc[r] = "done"
        /\ inbound[r].messages = <<[role |-> "user", content |-> "hi"],
                                   [role |-> "tool", content |-> "hi"]>>
        /\ resp[r].status = 422
        /\ outbound[r] = <<>>

\* C9: in main.py every 200 answer has exactly one choice with finish_reason
\* "stop", index 0 and a message of role assistant whose content is the
\* provider text; model is the inbound model, object is "chat.completion" and
\* the three usage counters are 0; and whenever the provider delivers a text
\* the envelope is composed (the answer is 200).
C9_EnvelopeShape ==
    \A r \in Reqs :
        (app = "main" /\ pc[r] = "done")
        => /\ (Posted(r) /\ reply[r].status = 201 /\ reply[r].body.tag = "text")
              => resp[r].status = 200
           /\ resp[r].status = 200
              => /\ Posted(r) /\ reply[r].status = 201 /\ reply[r].body.tag = "text"
                 /\ Len(resp[r].choices) = 1
                 /\ resp[r].choices[1].finish_reason = "stop"
                 /\ resp[r].choices[1].index = 0
                 /\ resp[r].choices[1].message.role = "assistant"
                 /\ IsTrimOf(resp[r].choices[1].message.content, reply[r].body.output)
                 /\ resp[r].model = inbound[r].model
                 /\ resp[r].object = "chat.completion"
                 /\ resp[r].usage.completion_tokens = 0
                 /\ resp[r].usage.prompt_tokens = 0
                 /\ resp[r].usage.total_tokens = 0

C9_Witness ==
    \E r \in Reqs :
        /\ app = "main"
        /\ pc[r] = "done"
        /\ resp[r].status = 200
        /\ inbound[r].model = "claude-haiku"
        /\ resp[r].model = "claude-haiku"
        /\ reply[r].body.output = <<"a", " ", "a">>
        /\ resp[r].choices[1].message.content = <<"a", " ", "a">>

\* C10: under every interleaving of concurrently handled requests, what a
\* request sent to the provider is determined by its own inbound body, and
\* its answer by its own inbound body and the reply to its own outbound call.
C10_RequestsAreIndependent ==
    \A r \in Reqs :
        /\ Posted(r)
           => LET request == ChatRequest(app, inbound[r])
              IN  outbound[r] =
                     <<GizAI_data(request.model, ToProviderMessages(app, request.messages).val)>>
        /\ Answered(r) => resp[r] = Answer(app, ChatRequest(app, inbound[r]), reply[r])
        /\ (pc[r] = "awaiting") => (reply[r] = NoReply /\ resp[r] = NoResponse)

C10_Witness ==
    \E r \in Reqs : \E s \in Reqs :
        /\ r # s
        /\ app = "main"
        /\ pc[r] = "awaiting"
        /\ Answered(s)
        /\ inbound[r].model # inbound[s].model
        /\ inbound[r].messages # inbound[s].messages
        /\ resp[s].status = 200
        /\ resp[s].model = inbound[s].model

====
